---- MODULE Spec2Model ----
(***************************************************************************)
(* Model of src/src/components/Planet.tsx: the Planet component's orbital  *)
(* state (keplerElementsRef), its memoised values (orbitType,              *)
(* updatedElementsRad, orbitPoints) and its per-frame useFrame callback.   *)
(*                                                                         *)
(* Numbers.  Orbital elements and rates are integers.  A radian value is   *)
(* kept exactly as  pi * (PiUnits-th of pi)  +  tenth * 0.1 : the tick's   *)
(* anomalies are multiples of pi/PiUnits, the hyperbolic sweep of the path *)
(* sampler is in tenths of a radian.  Values of the transcendental         *)
(* functions (Kepler root, position) are kept as the term of their         *)
(* arguments, together with the facts the code's formulas fix about them   *)
(* (NaN-ness, sign).  The opacity is an exact fraction num/den.            *)
(***************************************************************************)
EXTENDS Integers, Sequences, FiniteSets, TLC

VARIABLES
  planetData,          \* props: epoch elements, rates, orbitalPeriod, type
  AU,                  \* useSpace().AU; 0 stands for "not defined"
  clock,               \* clock.getElapsedTime(), real seconds
  groupMounted,        \* planetGroupRef.current is a group (the body is shown)
  keplerElementsRef,   \* keplerElementsRef.current
  updatedElementsRad,  \* useMemo value, deps [deg2rad]
  orbitType,           \* useMemo value, deps []
  orbitPoints,         \* useMemo value, deps [AU, orbitType, updatedElementsRad]
  orbitSkipped,        \* history: samples skipped (NaN) in the last regeneration
  position,            \* planetGroupRef.current.position
  keplerNaN,           \* the eccentricities at which solveKepler yields NaN
  lastTick,            \* history: what the last useFrame call did
  allDays,             \* history: sum of delta * speedFactor / 86400 over all ticks
  simDays              \* history: sum of deltaCySimulation over integrating ticks

vars == <<planetData, AU, clock, groupMounted,
          keplerElementsRef, updatedElementsRad, orbitType, orbitPoints,
          orbitSkipped, position, keplerNaN, lastTick, allDays, simDays>>

----------------------------------------------------------------------------
(* Bounds and input sets *)

MaxClock == 3
MaxProbe == 22

Deltas == {1, 2}
SpeedFactors == {-86400, 0, 86400}
AUValues == {0, 1, 2}
Distances == {4, 7, 10, 25}
EccValues == {0, 1, 2}
EccRates == {-1, 0, 1}
NaNCandidates == {1}

----------------------------------------------------------------------------
(* Program constants *)

PiUnits == 2880
SecondsPerDay == 86400
segments == 128
hyperbolicMaxIdx == 64
minDistanceFactor == 4
maxDistanceFactor == 10

----------------------------------------------------------------------------
(* Radian values *)

RadPi(k) == [pi |-> k, tenth |-> 0]
RadTenth(k) == [pi |-> 0, tenth |-> k]
RadNeg(r) == [pi |-> 0 - r.pi, tenth |-> 0 - r.tenth]
RadAdd(r, s) == [pi |-> r.pi + s.pi, tenth |-> r.tenth + s.tenth]

SgnInt(k) == IF k > 0 THEN 1 ELSE IF k < 0 THEN -1 ELSE 0
\* sign of a radian value; every value of the model has one part zero
Sgn(r) == IF r.pi # 0 THEN SgnInt(r.pi) ELSE SgnInt(r.tenth)

deg2rad(deg) == RadPi((deg * PiUnits) \div 180)

\* n * t, with n = 2 pi / (orbitalPeriod * 86400)
MeanMotionTimes(orbitalPeriod, t) ==
  RadPi((2 * PiUnits * t) \div (orbitalPeriod * SecondsPerDay))

----------------------------------------------------------------------------
(* solveKepler (utils/kepler): the root E of Kepler's equation for (M, e), *)
(* or NaN.  E is kept as the term (M, e); it has the sign of M.  Which     *)
(* inputs make the solver fail is not fixed: a behaviour fixes, once and   *)
(* for all, the set keplerNaN of eccentricities at which it returns NaN,   *)
(* so the solver stays a function of its inputs.                           *)

solveKepler(M, e) == [nan |-> e \in keplerNaN, M |-> M, e |-> e, sgn |-> Sgn(M)]

----------------------------------------------------------------------------
(* Regime *)

OrbitTypeOf(e) ==
  IF e < 1 THEN "elliptical"
  ELSE IF e = 1 THEN "parabolic"
  ELSE "hyperbolic"

\* true anomaly: NaN when a square root has a negative argument
TrueAnomaly(oType, e, E) ==
  IF oType = "elliptical" \/ oType = "parabolic"
  THEN [nan |-> (1 + e < 0) \/ (1 - e < 0), sgnKnown |-> FALSE, sgn |-> 0]
  ELSE [nan |-> (e + 1 < 0) \/ (e - 1 < 0), sgnKnown |-> TRUE, sgn |-> E.sgn]

Origin ==
  [kind |-> "origin", nan |-> FALSE, oType |-> "", a |-> 0, e |-> 0,
   M |-> RadPi(0), iRad |-> RadPi(0), ORad |-> RadPi(0), wRad |-> RadPi(0),
   AU |-> 0]

\* the point (x*AU, y*AU, z*AU) computed from E, the elements and the angles
InertialPoint(oType, a, E, rad, au) ==
  [kind |-> "point", nan |-> TrueAnomaly(oType, E.e, E).nan, oType |-> oType,
   a |-> a, e |-> E.e, M |-> E.M, iRad |-> rad.iRad, ORad |-> rad.ORad,
   wRad |-> rad.wRad, AU |-> au]

----------------------------------------------------------------------------
(* Orbit path sampler (orbitPoints) *)

\* MaxIdxOf with a fault injected: the hyperbolic sweep is not cut short
MaxIdxOf_NoHyperbolicCut(oType) == segments

MaxIdxOf(oType) == IF oType = "hyperbolic" THEN hyperbolicMaxIdx ELSE segments

\* the mean anomaly of sample idx
SweepM(idx, oType) ==
  IF oType = "hyperbolic"
  THEN RadTenth(idx - segments \div 2)
  ELSE RadPi((2 * PiUnits * idx) \div segments)

\* the loop indices whose sample is pushed (solveKepler did not yield NaN)
KeptIdx(e, oType) ==
  SelectSeq([k \in 1..(MaxIdxOf(oType) + 1) |-> k - 1],
            LAMBDA idx : ~solveKepler(SweepM(idx, oType), e).nan)

SkippedIdx(e, oType) ==
  {idx \in 0..MaxIdxOf(oType) : solveKepler(SweepM(idx, oType), e).nan}

\* the body of the orbitPoints memo: reads the ref's current eccentricity and
\* semi-major axis, the memoised orbitType and the memoised angles.  Every
\* point of one regeneration is computed from the same values, so the list is
\* kept as those values and the indices of the samples pushed; OrbitPoint(k)
\* is its k-th point.
ComputeOrbitPoints(elements, oType, rad, au) ==
  [oType |-> oType, a |-> elements.semiMajorAxis, e |-> elements.eccentricity,
   rad |-> rad, AU |-> au, kept |-> KeptIdx(elements.eccentricity, oType)]

OrbitPoint(k) ==
  InertialPoint(orbitPoints.oType, orbitPoints.a,
                solveKepler(SweepM(orbitPoints.kept[k], orbitPoints.oType),
                            orbitPoints.e),
                orbitPoints.rad, orbitPoints.AU)

----------------------------------------------------------------------------
(* Opacity target *)

Frac(n, d) == [num |-> n, den |-> d]
FracLeq(x, y) == x.num * y.den <= y.num * x.den
FracOne == Frac(1, 1)
FracZero == Frac(0, 1)

\* THREE.MathUtils.clamp(value, min, max) = max(min, min(max, value))
clamp(value, lo, hi) ==
  IF FracLeq(value, lo) THEN lo
  ELSE IF FracLeq(hi, value) THEN hi
  ELSE value

\* NewOpacity with a fault injected: the fade is not clamped
NewOpacity_Unclamped(distance, minDistance, maxDistance) ==
  IF distance > minDistance
  THEN Frac((maxDistance - minDistance) - (distance - minDistance),
            maxDistance - minDistance)
  ELSE FracOne

NewOpacity(distance, minDistance, maxDistance) ==
  IF distance > minDistance
  THEN clamp(Frac((maxDistance - minDistance) - (distance - minDistance),
                  maxDistance - minDistance),
             FracZero, FracOne)
  ELSE FracOne

MinDistanceOf(pd, au) == pd.semiMajorAxis * au * minDistanceFactor
MaxDistanceOf(pd, au) == pd.semiMajorAxis * au * maxDistanceFactor

----------------------------------------------------------------------------
(* Element integration *)

ElapsedTimeOf(clk, sf) == clk * sf

\* DeltaCySimulation with a fault injected: the speed factor is left out
DeltaCySimulation_NoSpeed(delta, sf) == delta

DeltaCySimulation(delta, sf) == (delta * sf) \div SecondsPerDay

\* Integrate with a fault injected: the inclination advances by the node's rate
Integrate_WrongRate(el, pd, dcy) ==
  [semiMajorAxis |-> el.semiMajorAxis + pd.semiMajorAxisRate * dcy,
   eccentricity |-> el.eccentricity + pd.eccentricityRate * dcy,
   inclination |-> el.inclination + pd.longitudeOfAscendingNodeRate * dcy,
   longitudeOfAscendingNode |->
     el.longitudeOfAscendingNode + pd.longitudeOfAscendingNodeRate * dcy,
   argumentOfPeriapsis |->
     el.argumentOfPeriapsis + pd.argumentOfPeriapsisRate * dcy,
   meanAnomalyAtEpoch |->
     el.meanAnomalyAtEpoch + pd.meanAnomalyAtEpochRate * dcy,
   opacity |-> el.opacity]

Integrate(el, pd, dcy) ==
  [semiMajorAxis |-> el.semiMajorAxis + pd.semiMajorAxisRate * dcy,
   eccentricity |-> el.eccentricity + pd.eccentricityRate * dcy,
   inclination |-> el.inclination + pd.inclinationRate * dcy,
   longitudeOfAscendingNode |->
     el.longitudeOfAscendingNode + pd.longitudeOfAscendingNodeRate * dcy,
   argumentOfPeriapsis |->
     el.argumentOfPeriapsis + pd.argumentOfPeriapsisRate * dcy,
   meanAnomalyAtEpoch |->
     el.meanAnomalyAtEpoch + pd.meanAnomalyAtEpochRate * dcy,
   opacity |-> el.opacity]

RadOf(el) ==
  [iRad |-> deg2rad(el.inclination),
   ORad |-> deg2rad(el.longitudeOfAscendingNode),
   wRad |-> deg2rad(el.argumentOfPeriapsis),
   M0Rad |-> deg2rad(el.meanAnomalyAtEpoch)]

\* the mean anomaly handed to solveKepler
MeanAnomaly(M0Rad, orbitalPeriod, elapsedTime, oType) ==
  LET M == RadAdd(M0Rad, MeanMotionTimes(orbitalPeriod, elapsedTime))
  IN IF oType = "hyperbolic"
     THEN (IF elapsedTime > 0 THEN M ELSE RadNeg(M))
     ELSE M

\* the initial value of keplerElementsRef (also what the useEffect stores)
EpochElements(pd) ==
  [semiMajorAxis |-> pd.semiMajorAxis,
   eccentricity |-> pd.eccentricity,
   inclination |-> pd.inclination,
   longitudeOfAscendingNode |-> pd.longitudeOfAscendingNode,
   argumentOfPeriapsis |-> pd.argumentOfPeriapsis,
   meanAnomalyAtEpoch |-> pd.meanAnomalyAtEpoch,
   opacity |-> FracZero]

----------------------------------------------------------------------------
(* Initial state: the component has mounted (first render and first effect) *)

PlanetDatas ==
  {[semiMajorAxis |-> 1, semiMajorAxisRate |-> 1,
    eccentricity |-> e, eccentricityRate |-> er,
    inclination |-> 10, inclinationRate |-> 2,
    longitudeOfAscendingNode |-> 20, longitudeOfAscendingNodeRate |-> 3,
    argumentOfPeriapsis |-> 30, argumentOfPeriapsisRate |-> 4,
    meanAnomalyAtEpoch |-> 0, meanAnomalyAtEpochRate |-> 5,
    orbitalPeriod |-> 360] : e \in EccValues, er \in EccRates}

NoTick ==
  [outcome |-> "none", speed |-> 0, AU |-> 0, camera |-> 0, elapsed |-> 0,
   M |-> RadPi(0), nuSgn |-> 0, afterPaused |-> FALSE]

Init ==
  /\ planetData \in PlanetDatas
  /\ AU = 1
  /\ clock = 0
  /\ groupMounted \in BOOLEAN
  /\ keplerNaN \in SUBSET NaNCandidates
  /\ keplerElementsRef = EpochElements(planetData)
  /\ updatedElementsRad = RadOf(keplerElementsRef)
  /\ orbitType = OrbitTypeOf(keplerElementsRef.eccentricity)
  /\ orbitPoints =
       ComputeOrbitPoints(keplerElementsRef, orbitType, updatedElementsRad, AU)
  /\ orbitSkipped =
       Cardinality(SkippedIdx(keplerElementsRef.eccentricity, orbitType))
  /\ position = Origin
  /\ lastTick = NoTick
  /\ allDays = 0
  /\ simDays = 0

----------------------------------------------------------------------------
(* The useFrame callback *)

\* Inputs of one frame: delta (real seconds since the last frame), the
\* speedFactor of the latest render, and camera.position, kept as the distance
\* `camera` it has to the position the frame computes for the body.
Tick ==
  \E delta \in Deltas, speedFactor \in SpeedFactors, camera \in Distances :
    /\ clock + delta <= MaxClock
    /\ clock' = clock + delta
    /\ UNCHANGED <<planetData, AU, groupMounted, updatedElementsRad, orbitType, orbitPoints, orbitSkipped,
                   keplerNaN>>
    /\ allDays' = allDays + DeltaCySimulation(delta, speedFactor)
    /\ LET elapsedTime == ElapsedTimeOf(clock', speedFactor)
           deltaCySimulation == DeltaCySimulation(delta, speedFactor)
           integrated == Integrate(keplerElementsRef, planetData,
                                   deltaCySimulation)
           updatedRad == RadOf(integrated)
           M == MeanAnomaly(updatedRad.M0Rad, planetData.orbitalPeriod,
                            elapsedTime, orbitType)
           E == solveKepler(M, integrated.eccentricity)
           nu == TrueAnomaly(orbitType, integrated.eccentricity, E)
           newPos == InertialPoint(orbitType, integrated.semiMajorAxis, E,
                                   updatedRad, AU)
           newOpacity ==
             IF newPos.nan
             THEN FracOne      \* the distance is NaN: NaN > minDistance is false
             ELSE NewOpacity(camera, MinDistanceOf(planetData, AU),
                             MaxDistanceOf(planetData, AU))
           \* the tick before this one ran paused, at the same AU
           afterPaused ==
             lastTick.outcome # "none" /\ lastTick.speed = 0 /\ lastTick.AU = AU
           rec(outcome) ==
             [outcome |-> outcome, speed |-> speedFactor, AU |-> AU,
              camera |-> IF outcome = "done" THEN camera ELSE 0,
              elapsed |-> elapsedTime, M |-> M,
              nuSgn |-> IF nu.sgnKnown /\ ~nu.nan THEN nu.sgn ELSE 0,
              afterPaused |-> afterPaused]
       IN IF AU = 0
          THEN \* "AU no esta definido": return
               /\ lastTick' = [NoTick EXCEPT !.outcome = "noAU",
                                             !.speed = speedFactor,
                                             !.afterPaused = afterPaused]
               /\ UNCHANGED <<keplerElementsRef, position, simDays>>
          ELSE
            /\ simDays' = simDays + deltaCySimulation
            /\ IF E.nan
               THEN \* solveKepler gave NaN: return
                    /\ keplerElementsRef' = integrated
                    /\ lastTick' = rec("nan")
                    /\ UNCHANGED position
               ELSE IF ~groupMounted
               THEN /\ keplerElementsRef' = integrated
                    /\ lastTick' = rec("noGroup")
                    /\ UNCHANGED position
               ELSE /\ position' = newPos
                    /\ keplerElementsRef' =
                         [integrated EXCEPT !.opacity = newOpacity]
                    /\ lastTick' = rec("done")

----------------------------------------------------------------------------
(* The environment: context changes re-render the component *)

\* AU changes: the orbitPoints memo (deps [AU, orbitType, updatedElementsRad])
\* is recomputed; orbitType and updatedElementsRad keep their memoised value
SetAU ==
  \E au \in AUValues \ {AU} :
    /\ AU' = au
    /\ orbitPoints' =
         ComputeOrbitPoints(keplerElementsRef, orbitType, updatedElementsRad, au)
    /\ orbitSkipped' =
         Cardinality(SkippedIdx(keplerElementsRef.eccentricity, orbitType))
    /\ UNCHANGED <<planetData, clock, groupMounted,
                   keplerElementsRef, updatedElementsRad, orbitType, position,
                   keplerNaN, lastTick, allDays, simDays>>

Next == Tick \/ SetAU

Spec == Init /\ [][Next]_vars

----------------------------------------------------------------------------
(* Properties *)

IsTick == clock' # clock

\* delta * speedFactor / 86400 of the tick being taken
StepDays == ((clock' - clock) * lastTick'.speed) \div 86400

\* the six orbital elements of a keplerElementsRef value
Elements(el) ==
  <<el.semiMajorAxis, el.eccentricity, el.inclination,
    el.longitudeOfAscendingNode, el.argumentOfPeriapsis, el.meanAnomalyAtEpoch>>

Rates(pd) ==
  <<pd.semiMajorAxisRate, pd.eccentricityRate, pd.inclinationRate,
    pd.longitudeOfAscendingNodeRate, pd.argumentOfPeriapsisRate,
    pd.meanAnomalyAtEpochRate>>

ElementsPlus(el, pd, days) ==
  [k \in 1..6 |-> Elements(el)[k] + Rates(pd)[k] * days]

FracEq(x, y) == x.num * y.den = y.num * x.den

\* C1: a tick on which solveKepler returns NaN leaves the six elements, the
\* stored opacity and the body's position as they were before the tick.
C1_NaNTickKeepsState ==
  [][(IsTick /\ lastTick'.outcome = "nan")
       => (keplerElementsRef' = keplerElementsRef /\ position' = position)]_vars

\* C2: the regime the propagator dispatches on is the regime of the current,
\* post-integration eccentricity.
C2_RegimeIsCurrent ==
  orbitType = OrbitTypeOf(keplerElementsRef.eccentricity)

\* C3: a tick at speed factor 0 that follows a tick at speed factor 0 (same AU)
\* ends as that tick ended, with the same six elements and the same position,
\* and with the same stored opacity when the observer is where it was.
C3_PauseInvariance ==
  [][(IsTick /\ lastTick'.speed = 0 /\ lastTick'.afterPaused)
       => /\ lastTick'.outcome = lastTick.outcome
          /\ Elements(keplerElementsRef') = Elements(keplerElementsRef)
          /\ position' = position
          /\ lastTick'.M = lastTick.M
          /\ lastTick'.camera = lastTick.camera
               => keplerElementsRef'.opacity = keplerElementsRef.opacity]_vars

C3_Witness ==
  /\ lastTick.outcome = "done"
  /\ lastTick.speed = 0
  /\ lastTick.afterPaused
  /\ position.kind = "point"
  /\ simDays # 0
  /\ clock = 3

\* C4: on a hyperbolic orbit the mean anomaly handed to the solver, and the
\* true anomaly, have the sign of the elapsed simulated time.
C4_HyperbolicSignFollowsTime ==
  (/\ lastTick.outcome \in {"done", "noGroup"}
   /\ orbitType = "hyperbolic"
   /\ keplerElementsRef.eccentricity > 1
   /\ lastTick.elapsed # 0)
    => /\ Sgn(lastTick.M) = SgnInt(lastTick.elapsed)
       /\ lastTick.nuSgn = SgnInt(lastTick.elapsed)

\* C5: the opacity a tick stores lies in [0,1], is 1 at a distance of at most
\* minDistance, 0 at a distance of at least maxDistance, and the target does
\* not increase with the distance.
C5_OpacityTarget ==
  LET op == keplerElementsRef.opacity
      minDistance == MinDistanceOf(planetData, lastTick.AU)
      maxDistance == MaxDistanceOf(planetData, lastTick.AU)
  IN /\ FracLeq(FracZero, op) /\ FracLeq(op, FracOne)
     /\ (lastTick.outcome = "done" /\ ~position.nan)
          => /\ lastTick.camera <= minDistance => FracEq(op, FracOne)
             /\ lastTick.camera >= maxDistance => FracEq(op, FracZero)
             /\ \A d \in 0..MaxProbe :
                  /\ d <= lastTick.camera
                       => FracLeq(op, NewOpacity(d, minDistance, maxDistance))
                  /\ d >= lastTick.camera
                       => FracLeq(NewOpacity(d, minDistance, maxDistance), op)
                  /\ FracLeq(NewOpacity(d + 1, minDistance, maxDistance),
                             NewOpacity(d, minDistance, maxDistance))

C5_Witness ==
  /\ lastTick.outcome = "done"
  /\ ~position.nan
  /\ ~FracLeq(keplerElementsRef.opacity, FracZero)
  /\ ~FracLeq(FracOne, keplerElementsRef.opacity)

\* C6: the current (drifted) eccentricity is never negative.
C6_EccentricityNonNegative ==
  keplerElementsRef.eccentricity >= 0

\* C7: every point of the orbit path is computed from the epoch elements
\* (semi-major axis, eccentricity, the three angles), not from drifted ones.
C7_PathFromEpochElements ==
  \A k \in 1..Len(orbitPoints.kept) :
    /\ OrbitPoint(k).a = planetData.semiMajorAxis
    /\ OrbitPoint(k).e = planetData.eccentricity
    /\ OrbitPoint(k).iRad = deg2rad(planetData.inclination)
    /\ OrbitPoint(k).ORad = deg2rad(planetData.longitudeOfAscendingNode)
    /\ OrbitPoint(k).wRad = deg2rad(planetData.argumentOfPeriapsis)

\* C8: on a hyperbolic orbit the mean anomalies the path sampler sweeps are
\* symmetric about 0: with every M swept, -M is swept.
C8_HyperbolicSweepSymmetric ==
  orbitType = "hyperbolic"
    => \A i \in 0..MaxIdxOf(orbitType) :
         \E j \in 0..MaxIdxOf(orbitType) :
           SweepM(j, orbitType) = RadNeg(SweepM(i, orbitType))

\* C9 (as stated): the path sampler takes the same number of samples,
\* segments + 1, whatever the body's elements and regime.
C9_SampleCountFixed ==
  Len(orbitPoints.kept) + orbitSkipped = segments + 1

\* C9 (amended): the number of samples taken is fixed by the memoised regime
\* alone: 65 on a hyperbolic orbit, 129 otherwise.
C9_SampleCountByRegime ==
  Len(orbitPoints.kept) + orbitSkipped =
    (IF orbitType = "hyperbolic" THEN 65 ELSE 129)

C9_Witness ==
  /\ orbitType = "hyperbolic"
  /\ Len(orbitPoints.kept) = 65
  /\ orbitPoints.AU = 2
  /\ orbitPoints.e # planetData.eccentricity

\* C10 (as stated): every tick advances each of the six elements by
\* rate * (delta * speedFactor / 86400), so each element is its epoch value
\* plus its rate times the simulated days elapsed over all ticks.
C10_EveryTickAdvances ==
  [][IsTick
       => /\ Elements(keplerElementsRef') =
               ElementsPlus(keplerElementsRef, planetData, StepDays)
          /\ Elements(keplerElementsRef') =
               ElementsPlus(EpochElements(planetData), planetData, allDays')]_vars

\* C10 (amended): every tick on which AU is defined advances each of the six
\* elements by rate * (delta * speedFactor / 86400) and its integration step
\* keeps the stored opacity; a tick on which AU is not defined advances
\* nothing.  Each element is its epoch value plus its rate times the simulated
\* days elapsed over the ticks on which AU was defined.
C10_DefinedAUTickAdvances ==
  [][IsTick
       => /\ AU # 0
            => /\ Elements(keplerElementsRef') =
                    ElementsPlus(keplerElementsRef, planetData, StepDays)
               /\ simDays' = simDays + StepDays
               /\ lastTick'.outcome \in {"nan", "noGroup"}
                    => keplerElementsRef'.opacity = keplerElementsRef.opacity
          /\ AU = 0 => keplerElementsRef' = keplerElementsRef
          /\ Elements(keplerElementsRef') =
               ElementsPlus(EpochElements(planetData), planetData, simDays')]_vars

C10_Witness ==
  /\ lastTick.outcome = "done"
  /\ simDays = 2
  /\ allDays = 3
  /\ Elements(keplerElementsRef) =
       ElementsPlus(EpochElements(planetData), planetData, 2)

====
